---- MODULE Spec2Model ----
(***************************************************************************)
(* Model of the goldmine-connect relay (src/main.go).  The file holds two  *)
(* variants of the client; `variant` selects which one runs:               *)
(*   variant 1 = src/main.go:1-221, variant 2 = src/main.go:223-480.       *)
(* Three sequential tasks exist after the handshake: the orchestrator      *)
(* (ProcessData), the input pump (readInputData) and the server pump       *)
(* (readServerData).  All channels are unbuffered, so a send is a          *)
(* rendezvous: the pump waits at a "send" position until the orchestrator  *)
(* takes the matching case of its select.                                  *)
(*                                                                         *)
(* Bytes are numbered by their position in their stream (the k-th byte     *)
(* read from local input is the number k), 0 is the zero byte of a fresh   *)
(* buffer.  Each pump hands over buffer[:n], a slice of the one buffer it  *)
(* reuses for the next Read, so the orchestrator's later Write reads       *)
(* memory the pump may be overwriting (a data race): every position of the *)
(* written chunk is either the byte handed over or the byte now in the     *)
(* buffer.                                                                 *)
(*                                                                         *)
(* Time is discrete.  A time.Ticker is a countdown `timer` that puts a     *)
(* tick into its channel (capacity 1, `tickPending`) every Timeout units.  *)
(***************************************************************************)
EXTENDS Integers, Sequences, FiniteSets, TLC

\* ---- bounds -------------------------------------------------------------
MaxInput == 2
MaxServer == 2
defaultBufferSize == 2
Timeout == 2

Variants == {1, 2}

Min(a, b) == IF a < b THEN a ELSE b

VARIABLES
    variant,        \* which of the two clients in src/main.go runs
    opc,            \* position of ProcessData
    exitCause,      \* which return statement of the event loop was taken
    fatal,          \* which log.Fatalf ended the process ("none" if none)
    connOpen,       \* net.DialTCP succeeded
    connClosed,     \* number of connection.Close() calls
    afterEOFMode,
    somethingRead,
    closing,        \* variant 2 only
    timer,          \* time units until afterEOFResponseTicker fires next
    tickPending,    \* a tick waits in afterEOFResponseTicker.C
    request,        \* chunk taken from requestDataChannel, not yet written
    response,       \* chunk taken from responseDataChannel, not yet written
    ipc,            \* position of readInputData
    inBuf,          \* readInputData's buffer
    inN,            \* n of its last Read
    inRead,         \* bytes read from local input so far
    spc,            \* position of readServerData
    srvBuf,         \* readServerData's buffer
    srvN,           \* n of its last Read
    srvRead,        \* bytes read from the connection so far
    receivedClosed,             \* close(received) has run
    serverDisconnectedClosed,   \* close(serverDisconnected) has run (variant 1)
    connOut,        \* bytes written to the connection after the handshake
    localOut,       \* bytes written to local output
    connWriteFailed,    \* a relay connection.Write returned an error
    outWriteFailed,     \* an outputData.Write returned an error
    sinceEOF,       \* time since doneChannel was handled (capped at Timeout)
    sinceInbound,   \* time since the last inbound chunk was taken (capped)
    inboundSinceEOF,    \* an inbound chunk was taken while afterEOFMode
    inboundBeforeEOF,   \* an inbound chunk was taken before afterEOFMode
    name,           \* options.Name()
    tag,            \* options.Tag()
    xtrn,           \* options.Xtrn(): <<>> is nil, <<code>> points to code
    handshakeOut,   \* bytes the handshake Write put on the connection
    inTaken,        \* input bytes taken from requestDataChannel
    srvTaken,       \* server bytes taken from responseDataChannel
    doneCount,      \* receives on doneChannel
    disconnectCount,    \* receives of a disconnect signal
    zeroReceived    \* a receive on a closed channel returned the zero value

vars == <<variant, opc, exitCause, fatal, connOpen, connClosed, afterEOFMode,
          somethingRead, closing, timer, tickPending, request, response,
          ipc, inBuf, inN, inRead, spc, srvBuf, srvN, srvRead,
          receivedClosed, serverDisconnectedClosed, connOut, localOut,
          connWriteFailed, outWriteFailed, sinceEOF, sinceInbound,
          inboundSinceEOF, inboundBeforeEOF, name, tag, xtrn, handshakeOut,
          inTaken, srvTaken, doneCount, disconnectCount, zeroReceived>>

orchVars == <<afterEOFMode, somethingRead, closing>>
tickVars == <<timer, tickPending>>
inVars == <<ipc, inBuf, inN, inRead>>
srvVars == <<spc, srvBuf, srvN, srvRead, receivedClosed, serverDisconnectedClosed>>
outVars == <<connOut, localOut, connWriteFailed, outWriteFailed>>
obsVars == <<sinceEOF, sinceInbound, inboundSinceEOF, inboundBeforeEOF>>
cfgVars == <<name, tag, xtrn>>
cntVars == <<inTaken, srvTaken, doneCount, disconnectCount, zeroReceived>>

ZeroBuffer == [i \in 1..defaultBufferSize |-> 0]

\* the process runs: no log.Fatalf has been called and main has not returned
Alive == fatal = "none" /\ opc # "exited"

\* the orchestrator is inside its event loop
InLoop == opc \in {"select", "writeConn", "writeOut"}

\* ProcessData has returned from the event loop
Closed == opc \in {"returned", "exited"}

\* ---- configuration and handshake ------------------------------------------

NUL == "NUL"

\* the configurations the handshake is built from: name, tag and the xtrn
\* pointer (nil, pointing to "", pointing to a code)
Names == {<<"b", "o", "b">>, <<"x">>}
Tags == {<<"A", "B", "C">>, <<"S">>}
Xtrns == {<<>>, << <<>> >>, << <<"M", "R", "C">> >>}
Configs == [name : Names, tag : Tags, xtrn : Xtrns]

\* the configurations the relay is run with
RelayConfigs == {c \in Configs : c.name = <<"b", "o", "b">>
                                  /\ c.tag = <<"A", "B", "C">>
                                  /\ c.xtrn # << <<>> >>}

\* localUsername: "local_username" in variant 1, "" in variant 2
LocalUsername(v) ==
    IF v = 1
      THEN <<"l", "o", "c", "a", "l", "_", "u", "s", "e", "r", "n", "a", "m", "e">>
      ELSE <<>>

XtrnPrefix == <<"x", "t", "r", "n", "=">>

\* Handshake with a NUL appended after the xtrn field too
HandshakeFinalNulAlways(v, nm, tg, xt) ==
    LET base == <<NUL>> \o LocalUsername(v) \o <<NUL, "[">> \o tg
                    \o <<"]">> \o nm \o <<NUL>>
    IN  IF xt # <<>> /\ xt[1] # <<>>
          THEN base \o XtrnPrefix \o xt[1] \o <<NUL, NUL>>
          ELSE IF v = 2 THEN base \o <<NUL>> ELSE base

\* Handshake without the test for the empty string
HandshakeNilCheckOnly(v, nm, tg, xt) ==
    LET base == <<NUL>> \o LocalUsername(v) \o <<NUL, "[">> \o tg
                    \o <<"]">> \o nm \o <<NUL>>
    IN  IF xt # <<>>
          THEN base \o XtrnPrefix \o xt[1] \o <<NUL>>
          ELSE IF v = 2 THEN base \o <<NUL>> ELSE base

\* fmt.Sprintf("\x00%s\x00[%s]%s\x00", localUsername, tag, remoteUsername),
\* then "xtrn=" + *xtrn + "\x00" when xtrn is not nil and not empty;
\* variant 2 has the else branch that appends "\x00"
Handshake(v, nm, tg, xt) ==
    LET base == <<NUL>> \o LocalUsername(v) \o <<NUL, "[">> \o tg
                    \o <<"]">> \o nm \o <<NUL>>
    IN  IF xt # <<>> /\ xt[1] # <<>>
          THEN base \o XtrnPrefix \o xt[1] \o <<NUL>>
          ELSE IF v = 2 THEN base \o <<NUL>> ELSE base

\* the state before main's first statement, whatever the configuration
InitState ==
    /\ variant \in Variants
    /\ opc = "resolve"
    /\ handshakeOut = <<>>
    /\ inTaken = 0
    /\ srvTaken = 0
    /\ doneCount = 0
    /\ disconnectCount = 0
    /\ zeroReceived = FALSE
    /\ exitCause = "none"
    /\ fatal = "none"
    /\ connOpen = FALSE
    /\ connClosed = 0
    /\ afterEOFMode = FALSE
    /\ somethingRead = FALSE
    /\ closing = FALSE
    /\ timer = Timeout
    /\ tickPending = FALSE
    /\ request = <<>>
    /\ response = <<>>
    /\ ipc = "idle"
    /\ inBuf = ZeroBuffer
    /\ inN = 0
    /\ inRead = 0
    /\ spc = "idle"
    /\ srvBuf = ZeroBuffer
    /\ srvN = 0
    /\ srvRead = 0
    /\ receivedClosed = FALSE
    /\ serverDisconnectedClosed = FALSE
    /\ connOut = <<>>
    /\ localOut = <<>>
    /\ connWriteFailed = FALSE
    /\ outWriteFailed = FALSE
    /\ sinceEOF = 0
    /\ sinceInbound = 0
    /\ inboundSinceEOF = FALSE
    /\ inboundBeforeEOF = FALSE

Init ==
    /\ InitState
    /\ \E c \in RelayConfigs : name = c.name /\ tag = c.tag /\ xtrn = c.xtrn

\* ---- helpers ------------------------------------------------------------

\* buffer after a Read of n bytes that follow `done` bytes already read
ReadInto(buf, done, n) ==
    [i \in 1..defaultBufferSize |-> IF i <= n THEN done + i ELSE buf[i]]

\* buffer[:n]
Slice(buf, n) == [i \in 1..n |-> buf[i]]

\* what a Write of a handed-over slice can put on the wire while the pump
\* may have started its next Read into the same buffer
RaceReads(snap, buf) ==
    {s \in [1..Len(snap) -> {snap[i] : i \in 1..Len(snap)} \cup
                             {buf[i] : i \in 1..Len(snap)}] :
        \A i \in 1..Len(snap) : s[i] \in {snap[i], buf[i]}}

\* the return statements of the event loop with the deferred
\* afterEOFResponseTicker.Stop() and connection.Close()
ReturnFromLoop(cause) ==
    /\ opc' = "returned"
    /\ exitCause' = cause
    /\ connClosed' = connClosed + 1

\* ---- ProcessData: before the event loop -----------------------------------

\* NewTelnetClient: resolveTCPAddr; on failure main's log.Fatalf ends the
\* process before any connection attempt
Resolve ==
    /\ Alive
    /\ opc = "resolve"
    /\ \/ opc' = "dial" /\ fatal' = fatal
       \/ fatal' = "resolve" /\ opc' = opc
    /\ UNCHANGED <<variant, cfgVars, handshakeOut, cntVars,
                   exitCause, connOpen,
                   connClosed, orchVars, tickVars, request, response, inVars,
                   srvVars, outVars, obsVars>>

\* net.DialTCP; on failure log.Fatalf ends the process
Dial ==
    /\ Alive
    /\ opc = "dial"
    /\ \/ /\ connOpen' = TRUE
          /\ opc' = "handshake"
          /\ fatal' = fatal
       \/ /\ fatal' = "dial"
          /\ UNCHANGED <<connOpen, opc>>
    /\ UNCHANGED <<variant, cfgVars, handshakeOut, cntVars,
                   exitCause, connClosed, orchVars, tickVars, request,
                   response, inVars, srvVars, outVars, obsVars>>

\* connection.Write(handshake); on failure log.Fatalf ends the process (the
\* deferred Close does not run under os.Exit).  On success the channels are
\* made, both pumps are started and the ticker is created.
SendHandshake ==
    /\ Alive
    /\ opc = "handshake"
    /\ \/ /\ handshakeOut' = Handshake(variant, name, tag, xtrn)
          /\ opc' = "select"
          /\ ipc' = "read"
          /\ spc' = "read"
          /\ timer' = Timeout
          /\ tickPending' = FALSE
          /\ fatal' = fatal
       \/ /\ \E k \in 0..(Len(Handshake(variant, name, tag, xtrn)) - 1) :
                handshakeOut' = SubSeq(Handshake(variant, name, tag, xtrn), 1, k)
          /\ fatal' = "handshake"
          /\ UNCHANGED <<opc, ipc, spc, timer, tickPending>>
    /\ UNCHANGED <<variant, cfgVars, cntVars,
                   exitCause, connOpen, connClosed, orchVars, request,
                   response, inBuf, inN, inRead, srvBuf, srvN, srvRead,
                   receivedClosed, serverDisconnectedClosed, outVars, obsVars>>

\* ---- ProcessData: the select ----------------------------------------------

\* case request := <-requestDataChannel
RecvRequest ==
    /\ Alive
    /\ opc = "select"
    /\ ipc = "sendChunk"
    /\ ipc' = "read"
    /\ inTaken' = inTaken + inN
    /\ IF variant = 2 /\ closing
         THEN /\ ReturnFromLoop("closingWrite")
              /\ request' = request
         ELSE /\ opc' = "writeConn"
              /\ request' = Slice(inBuf, inN)
              /\ UNCHANGED <<exitCause, connClosed>>
    /\ UNCHANGED <<variant, cfgVars, handshakeOut, srvTaken, doneCount,
                   disconnectCount, zeroReceived, fatal, connOpen, orchVars, tickVars, response,
                   inBuf, inN, inRead, srvVars, outVars, obsVars>>

\* connection.Write(request) and its error branch
WriteConn ==
    /\ Alive
    /\ opc = "writeConn"
    /\ \/ /\ \E s \in RaceReads(request, inBuf) : connOut' = connOut \o s
          /\ opc' = "select"
          /\ UNCHANGED <<exitCause, connClosed, connWriteFailed>>
       \/ /\ connWriteFailed' = TRUE
          /\ ReturnFromLoop("writeError")
          /\ connOut' = connOut
    /\ request' = <<>>
    /\ UNCHANGED <<variant, cfgVars, handshakeOut, cntVars,
                   fatal, connOpen, orchVars, tickVars, response,
                   inVars, srvVars, localOut, outWriteFailed, obsVars>>

\* RecvDone with a pump that does not return after its doneChannel send
\* and sends again
RecvDoneKeepsSending ==
    /\ Alive
    /\ opc = "select"
    /\ ipc = "sendDone"
    /\ ipc' = "sendDone"
    /\ doneCount' = Min(doneCount + 1, 2)
    /\ afterEOFMode' = TRUE
    /\ closing' = (variant = 2)
    /\ sinceEOF' = 0
    /\ UNCHANGED <<variant, cfgVars, handshakeOut, inTaken, srvTaken,
                   disconnectCount, zeroReceived, opc, exitCause, fatal,
                   connOpen, connClosed, somethingRead, tickVars, request, response, inBuf, inN,
                   inRead, srvVars, outVars, sinceInbound, inboundSinceEOF,
                   inboundBeforeEOF>>

\* RecvDone with a pump that goes on reading local input after its
\* doneChannel send
RecvDonePumpReadsOn ==
    /\ Alive
    /\ opc = "select"
    /\ ipc = "sendDone"
    /\ ipc' = "read"
    /\ doneCount' = Min(doneCount + 1, 2)
    /\ afterEOFMode' = TRUE
    /\ closing' = (variant = 2)
    /\ sinceEOF' = 0
    /\ UNCHANGED <<variant, cfgVars, handshakeOut, inTaken, srvTaken,
                   disconnectCount, zeroReceived, opc, exitCause, fatal,
                   connOpen, connClosed, somethingRead, tickVars, request,
                   response, inBuf, inN, inRead, srvVars, outVars,
                   sinceInbound, inboundSinceEOF, inboundBeforeEOF>>

\* case <-doneChannel
RecvDone ==
    /\ Alive
    /\ opc = "select"
    /\ ipc = "sendDone"
    /\ ipc' = "done"
    /\ doneCount' = Min(doneCount + 1, 2)
    /\ afterEOFMode' = TRUE
    /\ closing' = (variant = 2)
    /\ sinceEOF' = 0
    /\ UNCHANGED <<variant, cfgVars, handshakeOut, inTaken, srvTaken,
                   disconnectCount, zeroReceived, opc, exitCause, fatal,
                   connOpen, connClosed, somethingRead, tickVars, request, response, inBuf, inN,
                   inRead, srvVars, outVars, sinceInbound, inboundSinceEOF,
                   inboundBeforeEOF>>

\* case response := <-responseDataChannel: the chunk the pump is sending,
\* or at once the zero value when the channel is closed
RecvResponse ==
    /\ Alive
    /\ opc = "select"
    /\ \/ /\ spc = "sendChunk"
          /\ spc' = "read"
          /\ srvTaken' = srvTaken + srvN
          /\ zeroReceived' = zeroReceived
       \/ /\ receivedClosed
          /\ spc' = spc
          /\ srvTaken' = srvTaken
          /\ zeroReceived' = TRUE
    /\ IF variant = 2 /\ closing
         THEN /\ ReturnFromLoop("closingRead")
              /\ response' = response
         ELSE /\ opc' = "writeOut"
              /\ response' = IF spc = "sendChunk" THEN Slice(srvBuf, srvN)
                                                  ELSE <<>>
              /\ UNCHANGED <<exitCause, connClosed>>
    /\ sinceInbound' = 0
    /\ inboundSinceEOF' = (inboundSinceEOF \/ afterEOFMode)
    /\ inboundBeforeEOF' = (inboundBeforeEOF \/ ~afterEOFMode)
    /\ UNCHANGED <<variant, cfgVars, handshakeOut, inTaken, doneCount,
                   disconnectCount, fatal, connOpen, orchVars, tickVars,
                   request, inVars, srvBuf, srvN, srvRead, receivedClosed,
                   serverDisconnectedClosed, outVars, sinceEOF>>

\* WriteOut that clears afterEOFMode when a chunk has been written
WriteOutLeavesDraining ==
    /\ Alive
    /\ opc = "writeOut"
    /\ \/ /\ \E s \in RaceReads(response, srvBuf) : localOut' = localOut \o s
          /\ outWriteFailed' = outWriteFailed
       \/ /\ outWriteFailed' = TRUE
          /\ localOut' = localOut
    /\ somethingRead' = TRUE
    /\ IF afterEOFMode
         THEN timer' = Timeout /\ tickPending' = FALSE
         ELSE UNCHANGED tickVars
    /\ opc' = "select"
    /\ afterEOFMode' = FALSE
    /\ response' = <<>>
    /\ UNCHANGED <<variant, cfgVars, handshakeOut, cntVars,
                   exitCause, fatal, connOpen, connClosed,
                   closing, request, inVars, srvVars, connOut,
                   connWriteFailed, obsVars>>

\* outputData.Write(response), whose error is dropped; somethingRead = true;
\* the ticker is replaced when afterEOFMode
WriteOut ==
    /\ Alive
    /\ opc = "writeOut"
    /\ \/ /\ \E s \in RaceReads(response, srvBuf) : localOut' = localOut \o s
          /\ outWriteFailed' = outWriteFailed
       \/ /\ outWriteFailed' = TRUE
          /\ localOut' = localOut
    /\ somethingRead' = TRUE
    /\ IF afterEOFMode
         THEN timer' = Timeout /\ tickPending' = FALSE
         ELSE UNCHANGED tickVars
    /\ opc' = "select"
    /\ response' = <<>>
    /\ UNCHANGED <<variant, cfgVars, handshakeOut, cntVars,
                   exitCause, fatal, connOpen, connClosed,
                   afterEOFMode, closing, request, inVars, srvVars, connOut,
                   connWriteFailed, obsVars>>

\* case <-afterEOFResponseTicker.C
RecvTick ==
    /\ Alive
    /\ opc = "select"
    /\ tickPending
    /\ tickPending' = FALSE
    /\ IF afterEOFMode /\ ~somethingRead
         THEN ReturnFromLoop("timeout")
         ELSE UNCHANGED <<opc, exitCause, connClosed>>
    /\ UNCHANGED <<variant, cfgVars, handshakeOut, cntVars,
                   fatal, connOpen, orchVars, timer, request,
                   response, inVars, srvVars, outVars, obsVars>>

\* case <-serverDisconnected (variant 1) / <-closeSignal (variant 2): the
\* signal the pump is sending, or at once the zero value when the channel
\* is closed (variant 1 closes it)
RecvDisconnect ==
    /\ Alive
    /\ opc = "select"
    /\ \/ /\ spc = "sendClose"
          /\ spc' = "shutdown"
          /\ zeroReceived' = zeroReceived
       \/ /\ serverDisconnectedClosed
          /\ spc' = spc
          /\ zeroReceived' = TRUE
    /\ disconnectCount' = Min(disconnectCount + 1, 2)
    /\ ReturnFromLoop("disconnect")
    /\ UNCHANGED <<variant, cfgVars, handshakeOut, inTaken, srvTaken,
                   doneCount, fatal, connOpen, orchVars, tickVars, request,
                   response, inVars, srvBuf, srvN, srvRead, receivedClosed,
                   serverDisconnectedClosed, outVars, obsVars>>

\* main returns after ProcessData: the process ends, and both pumps with it
MainExit ==
    /\ fatal = "none"
    /\ opc = "returned"
    /\ opc' = "exited"
    /\ UNCHANGED <<variant, cfgVars, handshakeOut, cntVars,
                   exitCause, fatal, connOpen, connClosed, orchVars,
                   tickVars, request, response, inVars, srvVars, outVars,
                   obsVars>>

\* ---- readInputData ---------------------------------------------------------

\* reader.Read(buffer): n bytes, io.EOF, or another error (log.Fatalf)
InRead ==
    /\ Alive
    /\ ipc = "read"
    /\ \/ /\ \E n \in 1..Min(defaultBufferSize, MaxInput - inRead) :
                /\ inBuf' = ReadInto(inBuf, inRead, n)
                /\ inN' = n
                /\ inRead' = inRead + n
          /\ ipc' = "sendChunk"
          /\ fatal' = fatal
       \/ /\ ipc' = "sendDone"
          /\ UNCHANGED <<inBuf, inN, inRead, fatal>>
       \/ /\ fatal' = "input"
          /\ UNCHANGED <<ipc, inBuf, inN, inRead>>
    /\ UNCHANGED <<variant, cfgVars, handshakeOut, cntVars,
                   opc, exitCause, connOpen, connClosed, orchVars,
                   tickVars, request, response, srvVars, outVars, obsVars>>

\* ---- readServerData --------------------------------------------------------

\* SrvRead of a pump that closes its data channel before it sends the
\* disconnect signal
SrvReadClosesFirst ==
    /\ Alive
    /\ spc = "read"
    /\ \/ /\ ~Closed
          /\ \E n \in 1..Min(defaultBufferSize, MaxServer - srvRead) :
                /\ srvBuf' = ReadInto(srvBuf, srvRead, n)
                /\ srvN' = n
                /\ srvRead' = srvRead + n
          /\ spc' = "sendChunk"
          /\ receivedClosed' = receivedClosed
       \/ /\ spc' = "sendClose"
          /\ receivedClosed' = TRUE
          /\ UNCHANGED <<srvBuf, srvN, srvRead>>
    /\ UNCHANGED <<variant, cfgVars, handshakeOut, cntVars,
                   opc, exitCause, fatal, connOpen, connClosed,
                   orchVars, tickVars, request, response, inVars,
                   serverDisconnectedClosed, outVars, obsVars>>

\* connection.Read(buffer): n bytes, or io.EOF / another error
SrvRead ==
    /\ Alive
    /\ spc = "read"
    /\ \/ /\ ~Closed
          /\ \E n \in 1..Min(defaultBufferSize, MaxServer - srvRead) :
                /\ srvBuf' = ReadInto(srvBuf, srvRead, n)
                /\ srvN' = n
                /\ srvRead' = srvRead + n
          /\ spc' = "sendChunk"
       \/ /\ spc' = "sendClose"
          /\ UNCHANGED <<srvBuf, srvN, srvRead>>
    /\ UNCHANGED <<variant, cfgVars, handshakeOut, cntVars,
                   opc, exitCause, fatal, connOpen, connClosed,
                   orchVars, tickVars, request, response, inVars,
                   receivedClosed, serverDisconnectedClosed, outVars, obsVars>>

\* SrvShutdown of a pump that also closes the connection it read from
SrvShutdownClosesConnection ==
    /\ Alive
    /\ spc = "shutdown"
    /\ spc' = "done"
    /\ receivedClosed' = TRUE
    /\ serverDisconnectedClosed' = (variant = 1)
    /\ connClosed' = connClosed + 1
    /\ UNCHANGED <<variant, cfgVars, handshakeOut, cntVars,
                   opc, exitCause, fatal, connOpen,
                   orchVars, tickVars, request, response, inVars, srvBuf,
                   srvN, srvRead, outVars, obsVars>>

\* after the disconnect send: variant 1 runs its deferred
\* close(serverDisconnected) and close(received), variant 2 close(received)
SrvShutdown ==
    /\ Alive
    /\ spc = "shutdown"
    /\ spc' = "done"
    /\ receivedClosed' = TRUE
    /\ serverDisconnectedClosed' = (variant = 1)
    /\ UNCHANGED <<variant, cfgVars, handshakeOut, cntVars,
                   opc, exitCause, fatal, connOpen, connClosed,
                   orchVars, tickVars, request, response, inVars, srvBuf,
                   srvN, srvRead, outVars, obsVars>>

\* ---- time ------------------------------------------------------------------

\* one time unit passes while the ticker runs; at the end of its period the
\* ticker puts a tick into its channel (dropped when one is already there)
Advance ==
    /\ Alive
    /\ InLoop
    /\ IF timer = 1
         THEN timer' = Timeout /\ tickPending' = TRUE
         ELSE timer' = timer - 1 /\ tickPending' = tickPending
    /\ sinceEOF' = IF afterEOFMode THEN Min(sinceEOF + 1, Timeout) ELSE 0
    /\ sinceInbound' = Min(sinceInbound + 1, Timeout)
    /\ UNCHANGED <<variant, cfgVars, handshakeOut, cntVars,
                   opc, exitCause, fatal, connOpen, connClosed,
                   orchVars, request, response, inVars, srvVars, outVars,
                   inboundSinceEOF, inboundBeforeEOF>>

Next ==
    \/ Resolve
    \/ Dial
    \/ SendHandshake
    \/ RecvRequest
    \/ WriteConn
    \/ RecvDone
    \/ RecvResponse
    \/ WriteOut
    \/ RecvTick
    \/ RecvDisconnect
    \/ MainExit
    \/ InRead
    \/ SrvRead
    \/ SrvShutdown
    \/ Advance

Spec == Init /\ [][Next]_vars

\* Go's select picks among its ready cases at random, so a case that is ready
\* again and again is eventually taken; writes return; time passes.  The two
\* Reads wait for the environment and are given no fairness.
FairSpec ==
    /\ Spec
    /\ SF_vars(RecvRequest)
    /\ SF_vars(RecvDone)
    /\ SF_vars(RecvResponse)
    /\ SF_vars(RecvTick)
    /\ SF_vars(RecvDisconnect)
    /\ WF_vars(WriteConn)
    /\ WF_vars(WriteOut)
    /\ WF_vars(MainExit)
    /\ WF_vars(SrvShutdown)
    /\ WF_vars(Advance)

\* The handshake alone, over every configuration: main up to the first
\* select of the event loop.
InitHandshake ==
    /\ InitState
    /\ \E c \in Configs : name = c.name /\ tag = c.tag /\ xtrn = c.xtrn

NextHandshake ==
    \/ Resolve
    \/ Dial
    \/ SendHandshake

HandshakeSpec == InitHandshake /\ [][NextHandshake]_vars

\* ---- properties -------------------------------------------------------------

IsPrefix(s, t) == Len(s) <= Len(t) /\ \A i \in 1..Len(s) : s[i] = t[i]

\* the bytes read from local input / from the connection so far, in order
InputBytes == [i \in 1..inRead |-> i]
ServerBytes == [i \in 1..srvRead |-> i]

\* the session is over: ProcessData returned, or a pump's log.Fatalf ended
\* the process while the event loop was running
SessionEnded == Closed \/ fatal = "input"

\* the orchestrator takes the inbound chunk the server pump offers
TakesInbound == spc = "sendChunk" /\ spc' = "read"

\* the orchestrator takes a tick out of the ticker's channel
TakesTick == opc = "select" /\ tickPending /\ ~tickPending'

\* C1: a session that entered the event loop ends by exactly one of timeout,
\* disconnect or connection write error, and the connection is closed
\* exactly once.
C1_TerminalExclusivity ==
    SessionEnded =>
        /\ exitCause \in {"timeout", "disconnect", "writeError"}
        /\ connClosed = 1

\* C2: while draining after EOF, an inbound chunk handed over by the server
\* pump is kept and written to local output, the ticker is reset and the
\* session stays in draining: it is neither dropped nor closes the session.
C2_DrainingKeepsInbound ==
    [][ /\ (afterEOFMode /\ ~Closed /\ TakesInbound)
            => (opc' = "writeOut" /\ afterEOFMode')
        /\ (afterEOFMode /\ opc = "writeOut" /\ opc' # "writeOut")
            => /\ opc' = "select"
               /\ afterEOFMode'
               /\ localOut' # localOut \/ outWriteFailed'
               /\ timer' = Timeout
               /\ ~tickPending' ]_vars

\* C3: a tick handled while draining, with no inbound chunk taken since the
\* end-of-input signal, closes the session by timeout, whatever was received
\* while the session was still active.
C3_TickClosesSilentDrain ==
    [][ (TakesTick /\ afterEOFMode /\ ~inboundSinceEOF)
            => (Closed' /\ exitCause' = "timeout") ]_vars

\* C4: after an inbound chunk arrived while draining, the session closes by
\* inactivity timeout, a full period after that arrival (unless a disconnect
\* or a write error closes it first), and it does close when the remote
\* stays connected and silent.
C4_ClosesAPeriodAfterLastInbound ==
    /\ [](  (Closed /\ inboundSinceEOF
                /\ exitCause \notin {"disconnect", "writeError"})
            => (exitCause = "timeout" /\ sinceInbound >= Timeout))
    /\ (inboundSinceEOF /\ InLoop) ~> (SessionEnded \/ spc # "read")

\* C5: a close by inactivity timeout comes no earlier than one full timeout
\* period after the end-of-input signal was handled.
C5_TimeoutMeasuredFromEOF ==
    exitCause = "timeout" => sinceEOF >= Timeout

\* C6: the bytes written to the connection after the handshake are at every
\* moment a prefix of the bytes read from local input, unaltered and in
\* order, and equal them once every chunk read has been written.
C6_InputByteFidelity ==
    /\ IsPrefix(connOut, InputBytes)
    /\ (opc = "select" /\ ipc \in {"read", "sendDone", "done"})
        => connOut = InputBytes

\* C7: the bytes written to local output are a prefix of the bytes read from
\* the connection, unaltered and in order, and every chunk the server pump
\* hands over while the session is not closed goes on to be written.
C7_ServerByteFidelity ==
    /\ [](IsPrefix(localOut, ServerBytes))
    /\ [][ (~Closed /\ TakesInbound) => opc' = "writeOut" ]_vars

\* C8: once the server pump has observed remote close or a read error, the
\* session reaches Closed, also while the input pump keeps producing, and
\* after Closed nothing more is written to the connection.
C8_DisconnectLeadsToClosed ==
    /\ (spc = "sendClose" /\ InLoop) ~> Closed
    /\ [][ Closed => connOut' = connOut ]_vars

\* C9: a failed relay write, to the connection or to local output, leaves
\* the session Closed.
C9_WriteFailureIsFatal ==
    (connWriteFailed \/ outWriteFailed) => Closed

\* C10: a failure reading local input never makes the input pump end the
\* process; the session ends only by the orchestrator returning.
C10_InputErrorNeverKills ==
    fatal # "input"

\* ---- handshake properties ---------------------------------------------------

\* the handshake Write returned without error
HandshakeWritten == opc \notin {"resolve", "dial", "handshake"}

\* a pump runs, or the event loop has been entered
SessionActive == ipc # "idle" \/ spc # "idle" \/ HandshakeWritten

\* the door code is present and not empty
HasDoorCode == xtrn # <<>> /\ xtrn[1] # <<>>

\* C11: the handshake is on the connection in full before a pump starts or
\* the loop runs; after a failed resolve, connect or handshake write no pump
\* runs and no relayed byte is written; and a connection whose handshake
\* write failed is closed.
C11_HandshakeBeforeActive ==
    /\ SessionActive => handshakeOut = Handshake(variant, name, tag, xtrn)
    /\ fatal \in {"resolve", "dial", "handshake"}
        => (ipc = "idle" /\ spc = "idle" /\ connOut = <<>> /\ localOut = <<>>)
    /\ fatal = "handshake" => connClosed = 1

Bob == <<"b", "o", "b">>
ABC == <<"A", "B", "C">>

\* the door code, "" when absent
DoorCode == IF xtrn = <<>> THEN <<>> ELSE xtrn[1]

\* "[" tag "]" remote username
TaggedName == <<"[">> \o tag \o <<"]">> \o name

AmendedFields ==
    <<IF variant = 1
        THEN <<"l", "o", "c", "a", "l", "_", "u", "s", "e", "r", "n", "a", "m", "e">>
        ELSE <<>>,
      TaggedName>>
    \o (IF HasDoorCode THEN <<XtrnPrefix \o DoorCode>>
        ELSE IF variant = 2 THEN << <<>> >> ELSE <<>>)

RECURSIVE NulTerminated(_)
NulTerminated(fields) ==
    IF fields = <<>> THEN <<>>
    ELSE Head(fields) \o <<NUL>> \o NulTerminated(Tail(fields))

HasXtrnField(h) ==
    \E i \in 1..(Len(h) - 4) :
        /\ i = 1 \/ h[i - 1] = NUL
        /\ SubSeq(h, i, i + 4) = XtrnPrefix

\* the other way to say "no door code": nil for "", "" for nil
OtherAbsent(xt) == IF xt = <<>> THEN << <<>> >> ELSE <<>>

\* C13: the payload written ends with NUL, holds an xtrn= field exactly when
\* the door code is present and not empty, and is the same for a nil and for
\* an empty door code.
C13_XtrnIffNonEmpty ==
    HandshakeWritten =>
        /\ handshakeOut # <<>>
        /\ handshakeOut[Len(handshakeOut)] = NUL
        /\ HasXtrnField(handshakeOut) <=> HasDoorCode
        /\ ~HasDoorCode
            => handshakeOut = Handshake(variant, name, tag, OtherAbsent(xtrn))

C13_Witness == HandshakeWritten /\ xtrn = << <<>> >>

\* ---- discipline of the three tasks -------------------------------------------

\* a step of ProcessData alone: its position moves and neither pump's does
OrchestratorAlone == opc' # opc /\ UNCHANGED <<inVars, srvBuf, srvN, srvRead>>

\* C14: every write to the connection (handshake or relayed chunk) and every
\* write to local output is a step of ProcessData at that Write, and every
\* connection.Close() is ProcessData returning from its loop; a step in
\* which only a pump moves changes none of them.
C14_SingleWriter ==
    [][ /\ handshakeOut' # handshakeOut => opc = "handshake"
        /\ connOut' # connOut => (opc = "writeConn" /\ OrchestratorAlone)
        /\ localOut' # localOut => (opc = "writeOut" /\ OrchestratorAlone)
        /\ connClosed' # connClosed
            => (InLoop /\ opc' = "returned" /\ connClosed' = connClosed + 1)
        /\ opc' = opc /\ opc # "handshake"
            => UNCHANGED <<handshakeOut, connOut, localOut, connClosed>> ]_vars

C14_Witness ==
    /\ connOut # <<>>
    /\ localOut # <<>>
    /\ connClosed = 1
    /\ spc = "done"
    /\ ipc = "done"

\* C15: the end-of-input signal is received at most once, and it is sent
\* only when every byte read from local input has been handed over; the
\* disconnect signal is received at most once.
C15_SignalsAtMostOnce ==
    /\ doneCount <= 1
    /\ disconnectCount <= 1
    /\ ipc \in {"sendDone", "done"} => inTaken = inRead
    /\ ipc = "done" <=> doneCount = 1
    /\ spc \in {"shutdown", "done"} <=> disconnectCount = 1

C15_Witness ==
    doneCount = 1 /\ disconnectCount = 1 /\ inRead = MaxInput

\* C16: when the process ends by main returning, no pump is left blocked on
\* a channel send: a server pump whose Read returned EOF or an error has
\* delivered its disconnect signal, and every chunk and signal was taken.
C16_PumpsTerminate ==
    opc = "exited" =>
        /\ ipc \notin {"sendChunk", "sendDone"}
        /\ spc \notin {"sendChunk", "sendClose"}

\* C17: afterEOFMode, once set, stays set; once ProcessData has returned it
\* stays returned, takes nothing more from any channel and writes nothing
\* more to the connection or to local output.
C17_ForwardOnly ==
    [][ /\ afterEOFMode => afterEOFMode'
        /\ Closed
            => /\ Closed'
               /\ UNCHANGED <<connOut, localOut, exitCause, connClosed,
                              orchVars, request, response, cntVars>> ]_vars

C17_Witness ==
    opc = "exited" /\ afterEOFMode /\ spc = "sendClose" /\ localOut # <<>>

\* ---- order of the select -----------------------------------------------------

\* the non-terminal cases of the select that are ready: a pump waits in the
\* matching send
ReadyEvents ==
    (IF ipc = "sendChunk" THEN {"request"} ELSE {})
      \cup (IF ipc = "sendDone" THEN {"done"} ELSE {})
      \cup (IF spc = "sendChunk" THEN {"response"} ELSE {})

\* the session as ProcessData holds it: returned or not and why, its flags,
\* and how much it has written in each direction
OrchView ==
    [closed |-> Closed, cause |-> exitCause, afterEOFMode |-> afterEOFMode,
     somethingRead |-> somethingRead, closing |-> closing,
     sent |-> Len(connOut), out |-> Len(localOut)]

\* the body of the select case of event e run on s, its Write succeeding
Handle(e, s) ==
    IF s.closed THEN s
    ELSE CASE e = "request" ->
                IF variant = 2 /\ s.closing
                  THEN [s EXCEPT !.closed = TRUE, !.cause = "closingWrite"]
                  ELSE [s EXCEPT !.sent = @ + inN]
           [] e = "done" ->
                [s EXCEPT !.afterEOFMode = TRUE, !.closing = (variant = 2)]
           [] e = "response" ->
                IF variant = 2 /\ s.closing
                  THEN [s EXCEPT !.closed = TRUE, !.cause = "closingRead"]
                  ELSE [s EXCEPT !.out = @ + srvN, !.somethingRead = TRUE]

\* C18: when two non-terminal events are ready at the select, handling them
\* in either order leaves the same session: same status and cause, same
\* flags (so the same ability to close by timeout), same amount written.
C18_NonTerminalEventsCommute ==
    opc = "select" =>
        \A e1, e2 \in ReadyEvents :
            Handle(e2, Handle(e1, OrchView)) = Handle(e1, Handle(e2, OrchView))

\* ---- the closed inbound channel ----------------------------------------------

\* C19: ProcessData never receives from the inbound data channel after its
\* close: no receive has returned the zero value of a closed channel, and
\* the channel is closed only after ProcessData has taken the disconnect
\* signal and returned from its loop.
C19_NoReceiveAfterClose ==
    /\ ~zeroReceived
    /\ receivedClosed => Closed /\ exitCause = "disconnect" /\ disconnectCount = 1

\* the pump has closed the channel in a session that received inbound chunks
C19_Witness == receivedClosed /\ spc = "done" /\ srvTaken > 0 /\ localOut # <<>>

\* ---- inbound data at disconnect ----------------------------------------------

\* C20: when the session ends through the disconnect signal (and no write to
\* local output has failed), every byte the server pump read from the
\* connection has been written to local output.
C20_NoInboundLossAtDisconnect ==
    (exitCause = "disconnect" /\ ~outWriteFailed) => localOut = ServerBytes

\* ---- outbound data after end of input ----------------------------------------

\* the orchestrator has handled the end-of-input signal
EndOfInputHandled == afterEOFMode

\* C21: no outbound chunk reaches the orchestrator after the end-of-input
\* signal. Once the signal is handled the input pump has returned, no
\* request is taken or waits to be written, every byte the pump read has
\* been handed over, nothing more is written to the connection, and the
\* session never ends through the request case's closing branch.
C21_NoOutboundAfterEndOfInput ==
    /\ [](exitCause # "closingWrite")
    /\ [](EndOfInputHandled =>
            /\ ipc = "done"
            /\ doneCount = 1
            /\ opc # "writeConn"
            /\ inTaken = inRead)
    /\ [][EndOfInputHandled =>
            /\ connOut' = connOut
            /\ inTaken' = inTaken
            /\ request' = request]_vars

\* the second variant goes on after end of input, with closing set, in a
\* session that sent all its outbound chunks before
C21_Witness ==
    /\ variant = 2
    /\ EndOfInputHandled
    /\ closing
    /\ opc = "select"
    /\ inTaken = MaxInput
    /\ Len(connOut) = MaxInput

====
